---- MODULE Spec2Model ----
(***************************************************************************)
(* Model of scraper.py: the pokellector card downloader.                   *)
(*                                                                         *)
(* Strings are sequences of tokens.  A token is a run of characters that   *)
(* the code never looks inside ("den-cards", "png"), or one of the         *)
(* separators the code splits on (".", "/").  Remote responses (search     *)
(* pages, detail pages, image transfers) are chosen by the environment.    *)
(***************************************************************************)
EXTENDS Integers, Sequences, FiniteSets, TLC

VARIABLES
    pc,             \* position of the process
    argv,           \* sys.argv[1], when given
    stack,          \* return sites of the active download_pokemon_cards calls
    exitCode,       \* exit status once pc = "exit"
    pokemon_name,   \* argument of the most recent download_pokemon_cards call
    total_pages,    \* scraper.py:130
    page,           \* loop variable of scraper.py:136
    all_card_urls,  \* scraper.py:135
    queue,          \* sorted(all_card_urls), scraper.py:143
    idx,            \* position in queue
    downloaded,     \* scraper.py:142
    dir,            \* the output directory: file name -> content
    log,            \* requests made by the most recent run, in order
    tpResp,         \* response that get_total_pages has just read
    lastCard,       \* what the last card-loop iteration saw and did
    created,        \* files the most recent run created in dir
    imgRequests,    \* download_image invocations of the most recent run
    reported,       \* the run printed "Complete! Downloaded ..."
    lastReport,     \* the count in the last such line
    noResults,      \* the run printed "No results found"
    failKinds,      \* "search", "streamfail": the most recent run met one
    loopDone,       \* the run got past its card loop
    startRuns,      \* runs made for the name the program was started with
    prompted,       \* the prompt of main() was shown
    blankEntered,   \* a blank line was entered at the prompt of main()
    exPage,         \* input of a stand-alone get_card_image_url application
    exResult        \* its result

runVars == <<pokemon_name, total_pages, page, all_card_urls, queue, idx,
             downloaded, log, tpResp, lastCard, created, imgRequests,
             reported, lastReport, noResults, failKinds, loopDone>>

vars == <<pc, argv, stack, exitCode, dir, startRuns, prompted, blankEntered,
          exPage, exResult, runVars>>

----------------------------------------------------------------------------
(* Bounds *)

MaxNameLen == 1     \* longest name typed or passed
MaxDepth == 2       \* nested download_pokemon_cards calls
MaxPage == 2        \* largest page number in a pagination link
MaxParams == 2      \* query parameters in one pagination link
MaxLinks == 2       \* anchors on one search page
MaxCard == 2        \* distinct card detail links on the site
MaxImgs == 2        \* <img> elements on one detail page
MaxStartRuns == 2   \* startRuns saturates here

----------------------------------------------------------------------------
(* Sequences *)

SeqsUpTo(S, n) == UNION {[1..k -> S] : k \in 0..n}

Range(s) == {s[i] : i \in 1..Len(s)}

Tail2(s, i) == SubSeq(s, i, Len(s))

\* positions of token t in s
Positions(s, t) == {i \in 1..Len(s) : s[i] = t}

SetMax(S) == CHOOSE x \in S : \A y \in S : y <= x

SetMin(S) == CHOOSE x \in S : \A y \in S : x <= y

\* str.split(sep)[-1]
LastSegment(s, sep) ==
    IF Positions(s, sep) = {} THEN s
    ELSE Tail2(s, SetMax(Positions(s, sep)) + 1)

\* sub in s
Contains(s, sub) ==
    \E i \in 1..(Len(s) - Len(sub) + 1) : SubSeq(s, i, i + Len(sub) - 1) = sub

\* str.lower(), token by token
LowerTok(t) ==
    CASE t = "PNG" -> "png"
      [] t = "JPG" -> "jpg"
      [] t = "JPEG" -> "jpeg"
      [] t = "WEBP" -> "webp"
      [] OTHER -> t

Lower(s) == [i \in 1..Len(s) |-> LowerTok(s[i])]

RECURSIVE lstrip(_)
lstrip(s) == IF s # <<>> /\ Head(s) = " " THEN lstrip(Tail(s)) ELSE s

RECURSIVE rstrip(_)
rstrip(s) ==
    IF s # <<>> /\ s[Len(s)] = " " THEN rstrip(SubSeq(s, 1, Len(s) - 1)) ELSE s

\* str.strip()
strip(s) == rstrip(lstrip(s))

----------------------------------------------------------------------------
(* Names: is_valid_input *)

AllowedChars == {"a", "Z", "7", "-", " ", "'", "."}

NameChars == {"a", " ", "@"}

Names == SeqsUpTo(NameChars, MaxNameLen)

is_valid_input(n) == n # <<>> /\ \A i \in 1..Len(n) : n[i] \in AllowedChars

----------------------------------------------------------------------------
(* Detail pages: get_card_image_url *)

CardHost == <<"den-cards", ".", "pokellector", ".", "com">>

ImageExts == {<<"png">>, <<"jpg">>, <<"jpeg">>, <<"webp">>}

SrcA == <<"https://">> \o CardHost \o <<"/", "a", ".", "png">>
SrcB == <<"https://">> \o CardHost \o <<"/", "b", ".", "JPG">>
SrcC == <<"https://">> \o CardHost \o <<"/", "c">>
SrcSlash == <<"https://">> \o CardHost \o <<"/">>
SrcOther == <<"https://", "img", ".", "com", "/", "a", ".", "png">>

\* <<>> is a missing or empty src / content attribute
Srcs == {<<>>, SrcA, SrcB, SrcC, SrcSlash, SrcOther}

None == <<"None">>

FetchFailed == [ok |-> FALSE]

\* A fetched detail page: its <img> elements in document order, the position
\* among them of the first <img> inside the first div.card (0: no such
\* element), and the content of the og:image and itemprop=image meta tags.
PagesWith(n, metas) ==
    {[ok |-> TRUE, imgs |-> is, cardImg |-> c, og |-> og, item |-> it] :
        is \in SeqsUpTo(Srcs, n), c \in 0..n, og \in Srcs, it \in metas}

DetailPages == {p \in PagesWith(MaxImgs, Srcs) : p.cardImg <= Len(p.imgs)}

has_host(src) == Contains(src, CardHost)

has_ext(src) == Lower(LastSegment(src, ".")) \in ImageExts

is_card_image_noext(src) == src # <<>> /\ has_host(src)

\* the test of scraper.py:57 and scraper.py:75
is_card_image(src) == src # <<>> /\ has_host(src) /\ has_ext(src)

tier1(p) ==
    IF p.cardImg # 0 /\ is_card_image(p.imgs[p.cardImg])
    THEN p.imgs[p.cardImg] ELSE None

tier2(p) ==
    IF p.og # <<>> /\ has_host(p.og) THEN p.og
    ELSE IF p.item # <<>> /\ has_host(p.item) THEN p.item
    ELSE None

tier3(p) ==
    LET hits == {i \in 1..Len(p.imgs) : is_card_image(p.imgs[i])}
    IN  IF hits = {} THEN None ELSE p.imgs[SetMin(hits)]

get_card_image_url_meta_first(p) ==
    IF ~p.ok THEN None
    ELSE IF tier2(p) # None THEN tier2(p)
    ELSE IF tier1(p) # None THEN tier1(p)
    ELSE tier3(p)

get_card_image_url(p) ==
    IF ~p.ok THEN None
    ELSE IF tier1(p) # None THEN tier1(p)
    ELSE IF tier2(p) # None THEN tier2(p)
    ELSE tier3(p)

----------------------------------------------------------------------------
(* Search pages: search_pokemon_cards and get_total_pages *)

\* An anchor of a search page, as far as the pattern of scraper.py:28 looks
\* at it: whether its first path segment ends in "-Expansion", the number n
\* of the card when its second segment is "<name>-Card-<n>" (0: the segment
\* has no such shape), and whether a "#fragment" follows.  The page loop
\* meets an anchor for every card, one for the first card with a fragment,
\* and an anchor that is no card link.
LoopHrefs ==
    {[exp |-> TRUE, card |-> c, frag |-> FALSE] : c \in 1..MaxCard}
    \cup {[exp |-> TRUE, card |-> 1, frag |-> TRUE],
          [exp |-> FALSE, card |-> 1, frag |-> FALSE]}

LoopSearchResponses ==
    {FetchFailed} \cup
    {[ok |-> TRUE, links |-> ls] : ls \in SeqsUpTo(LoopHrefs, MaxLinks)}

\* re.match(r'^/[^/]+-Expansion/[^/]+-Card-[^#]+', href)
is_card_href(h) == h.exp /\ h.card # 0

\* "https://www.pokellector.com" + href.split('#')[0]: the card URLs of one
\* expansion differ in the card number only, which stands for the URL
card_url(h) == h.card

RECURSIVE collect_links(_, _)
collect_links(links, card_links) ==
    IF links = <<>> THEN card_links
    ELSE LET h == Head(links)
             full_url == card_url(h)
         IN  IF is_card_href(h) /\ full_url \notin Range(card_links)
             THEN collect_links(Tail(links), Append(card_links, full_url))
             ELSE collect_links(Tail(links), card_links)

search_pokemon_cards(resp) ==
    IF ~resp.ok THEN <<>> ELSE collect_links(resp.links, <<>>)

\* A query parameter of a pagination anchor: its key, and its value when the
\* value starts with digits (-1: it does not).
Params == [key : {"p", "q"}, val : -1..MaxPage]

PageHrefs == SeqsUpTo(Params, MaxParams)

TotalResponses ==
    {FetchFailed} \cup
    {[ok |-> TRUE, links |-> ls] : ls \in SeqsUpTo(PageHrefs, MaxLinks)}

\* The first search pages the whole program is run against: no pagination
\* anchor, or one anchor with one page number.
LoopTotalResponses ==
    {FetchFailed} \cup
    {[ok |-> TRUE, links |-> ls] :
        ls \in {<<>>} \cup {<<<<[key |-> "p", val |-> n]>>>> : n \in 1..MaxPage}}

NoResp == [ok |-> FALSE, none |-> TRUE]

\* '?p=' in href or '&p=' in href
has_page_param(h) == \E i \in 1..Len(h) : h[i].key = "p"

\* re.search(r'[?&]p=(\d+)', href): the leftmost match, -1 when none
page_param(h) ==
    LET hits == {i \in 1..Len(h) : h[i].key = "p" /\ h[i].val >= 0}
    IN  IF hits = {} THEN -1 ELSE h[SetMin(hits)].val

Max2(a, b) == IF a >= b THEN a ELSE b

RECURSIVE scan_pages(_, _)
scan_pages(links, max_page) ==
    IF links = <<>> THEN max_page
    ELSE LET h == Head(links)
         IN  IF has_page_param(h) /\ page_param(h) >= 0
             THEN scan_pages(Tail(links), Max2(max_page, page_param(h)))
             ELSE scan_pages(Tail(links), max_page)

get_total_pages_one_on_failure(resp) ==
    IF ~resp.ok THEN 1 ELSE scan_pages(resp.links, 1)

get_total_pages(resp) ==
    IF ~resp.ok THEN 0 ELSE scan_pages(resp.links, 1)

sorted_descending(S) ==
    LET RECURSIVE desc(_)
        desc(T) == IF T = {} THEN <<>>
                   ELSE <<SetMax(T)>> \o desc(T \ {SetMax(T)})
    IN  desc(S)

\* sorted(all_card_urls)
sorted(S) ==
    LET RECURSIVE asc(_)
        asc(T) == IF T = {} THEN <<>>
                  ELSE <<SetMin(T)>> \o asc(T \ {SetMin(T)})
    IN  asc(S)

----------------------------------------------------------------------------
(* The output directory: download_image *)

\* image_url.split('/')[-1]
filename(image_url) == LastSegment(image_url, "/")

\* the image URLs the card loop meets
LoopSrcs == {SrcA, SrcC, SrcSlash}

\* The directory gives every file name its content: "absent", "old" (there
\* before the program started), "full" (a whole image written by
\* download_image), "partial" (download_image opened it and the transfer
\* broke before the last chunk).
FileNames == {filename(s) : s \in LoopSrcs} \ {<<>>}

path_exists_never(d, f) == FALSE

\* os.path.exists(os.path.join(output_dir, filename)); with an empty file
\* name the path is the output directory itself, made at scraper.py:128
path_exists(d, f) == f = <<>> \/ d[f] # "absent"

Transfers == {"ok", "reqfail", "streamfail"}

\* download_image(image_url, output_path) under transfer outcome t:
\* the value returned, whether an exception left the function, the directory
download_image(d, f, t) ==
    CASE t = "reqfail" -> [ret |-> FALSE, raised |-> FALSE, dir |-> d]
      [] f = <<>> -> [ret |-> FALSE, raised |-> TRUE, dir |-> d]
      [] t = "streamfail" ->
            [ret |-> FALSE, raised |-> TRUE, dir |-> [d EXCEPT ![f] = "partial"]]
      [] OTHER -> [ret |-> TRUE, raised |-> FALSE, dir |-> [d EXCEPT ![f] = "full"]]

----------------------------------------------------------------------------
(* The program *)

NoArg == [given |-> FALSE, name |-> <<>>]

ArgChoices == {NoArg} \cup {[given |-> TRUE, name |-> n] : n \in Names}

NoCard == [card |-> 0, image |-> None, existed |-> FALSE, outcome |-> "none"]

\* The detail pages the card loop is run against: no <img> or one, inside
\* div.card or not, and an og:image tag or none.
LoopPages ==
    {FetchFailed} \cup
    {[ok |-> TRUE, imgs |-> p[1], cardImg |-> p[2], og |-> og, item |-> <<>>] :
        p \in {<< <<>>, 0 >>, << <<SrcA>>, 0 >>, << <<SrcA>>, 1 >>},
        og \in {<<>>, SrcC, SrcSlash}}

Req(k, v) == [k |-> k, v |-> v]

InitDirs == [FileNames -> {"absent", "old"}]

\* nothing has been fetched, written or typed yet
Fresh ==
    /\ exitCode = 0
    /\ total_pages = 0
    /\ page = 0
    /\ all_card_urls = {}
    /\ queue = <<>>
    /\ idx = 0
    /\ downloaded = 0
    /\ log = <<>>
    /\ tpResp = NoResp
    /\ lastCard = NoCard
    /\ created = 0
    /\ imgRequests = 0
    /\ reported = FALSE
    /\ lastReport = 0
    /\ noResults = FALSE
    /\ failKinds = {}
    /\ loopDone = FALSE
    /\ prompted = FALSE
    /\ blankEntered = FALSE

Init ==
    /\ pc = "boot"
    /\ dir \in InitDirs
    /\ exPage = FetchFailed
    /\ exResult = None
    /\ argv = NoArg
    /\ stack = <<>>
    /\ pokemon_name = <<>>
    /\ startRuns = 0
    /\ Fresh

\* download_pokemon_cards(n) is entered from the given site:
\* "top" (scraper.py:199), "argv" (scraper.py:177) or "loop" (scraper.py:187)
Call(n, site) ==
    /\ Len(stack) < MaxDepth
    /\ stack' = Append(stack, site)
    /\ pc' = "total"
    /\ pokemon_name' = n
    /\ total_pages' = 0
    /\ page' = 0
    /\ all_card_urls' = {}
    /\ queue' = <<>>
    /\ idx' = 0
    /\ downloaded' = 0
    /\ log' = <<>>
    /\ tpResp' = NoResp
    /\ lastCard' = NoCard
    /\ created' = 0
    /\ imgRequests' = 0
    /\ reported' = FALSE
    /\ lastReport' = 0
    /\ noResults' = FALSE
    /\ failKinds' = {}
    /\ loopDone' = FALSE
    /\ startRuns' = IF site \in {"top", "argv"} /\ startRuns < MaxStartRuns
                    THEN startRuns + 1 ELSE startRuns
    /\ UNCHANGED <<dir, exitCode>>

\* download_pokemon_cards returns to the site on top of the stack
Return ==
    /\ stack' = SubSeq(stack, 1, Len(stack) - 1)
    /\ pc' = IF stack[Len(stack)] = "top" THEN "exit" ELSE "prompt"
    /\ UNCHANGED exitCode

\* the __main__ block, scraper.py:191-199
MainBlock ==
    /\ pc = "boot"
    /\ \E a \in ArgChoices :
        /\ argv' = a
        /\ IF a.given
           THEN Call(a.name, "top")
           ELSE \E typed \in Names :
                   IF strip(typed) = <<>>
                   THEN /\ pc' = "exit"
                        /\ exitCode' = 1
                        /\ UNCHANGED <<stack, dir, startRuns, runVars>>
                   ELSE Call(strip(typed), "top")
    /\ UNCHANGED <<prompted, blankEntered, exPage, exResult>>

\* scraper.py:128-135
GetTotalPagesOf(responses) ==
    /\ pc = "total"
    /\ \E resp \in responses :
        /\ tpResp' = resp
        /\ total_pages' = get_total_pages(resp)
        /\ failKinds' = failKinds
        /\ IF get_total_pages(resp) = 0
           THEN /\ noResults' = TRUE
                /\ page' = page
                /\ Return
           ELSE /\ noResults' = FALSE
                /\ page' = 1
                /\ pc' = "pages"
                /\ UNCHANGED <<stack, exitCode>>
    /\ log' = Append(log, Req("total", 1))
    /\ UNCHANGED <<argv, dir, pokemon_name, all_card_urls, queue, idx,
                   downloaded, lastCard, created, imgRequests, reported,
                   lastReport, loopDone, startRuns, prompted, blankEntered,
                   exPage, exResult>>

GetTotalPages == GetTotalPagesOf(LoopTotalResponses)

\* one iteration of the page loop, scraper.py:136-140; after the last one,
\* scraper.py:141-143, and scraper.py:189 when there is no card
SearchPage ==
    /\ pc = "pages"
    /\ \E resp \in LoopSearchResponses :
        LET card_urls == search_pokemon_cards(resp)
            urls == all_card_urls \cup Range(card_urls)
        IN  /\ all_card_urls' = urls
            /\ failKinds' = IF resp.ok THEN failKinds
                            ELSE failKinds \cup {"search"}
            /\ IF page < total_pages
               THEN /\ page' = page + 1
                    /\ pc' = "pages"
                    /\ UNCHANGED <<queue, idx, loopDone>>
               ELSE /\ page' = page
                    /\ queue' = sorted(urls)
                    /\ idx' = 1
                    /\ loopDone' = (urls = {})
                    /\ pc' = IF urls = {} THEN "main" ELSE "cards"
    /\ log' = Append(log, Req("search", page))
    /\ tpResp' = NoResp
    /\ UNCHANGED <<argv, stack, exitCode, dir, pokemon_name, total_pages,
                   downloaded, lastCard, created, imgRequests, reported,
                   lastReport, noResults, startRuns, prompted, blankEntered,
                   exPage, exResult>>

after_card_uncaught(outcome, last) ==
    IF outcome = "streamfail" THEN "crashed"
    ELSE IF last THEN "main" ELSE "cards"

\* where the card loop goes after an iteration: the except clause of
\* scraper.py:160 takes every failure, the loop goes on (scraper.py:143) or
\* ends at scraper.py:189
after_card(outcome, last) == IF last THEN "main" ELSE "cards"

\* one iteration of the card loop, scraper.py:143-163
ProcessCard ==
    /\ pc = "cards"
    /\ \E resp \in LoopPages, t \in Transfers :
        LET url == queue[idx]
            image_url == get_card_image_url(resp)
            f == filename(image_url)
            skip == image_url # None /\ path_exists(dir, f)
            call == image_url # None /\ ~skip
            dl == download_image(dir, f, t)
            outcome == IF ~resp.ok THEN "fetchfail"
                       ELSE IF image_url = None THEN "noimage"
                       ELSE IF skip THEN "skip"
                       ELSE IF dl.ret THEN "ok"
                       ELSE IF dl.raised THEN "streamfail"
                       ELSE "reqfail"
            last == idx = Len(queue)
        IN  /\ dir' = IF call THEN dl.dir ELSE dir
            /\ downloaded' = IF call /\ dl.ret THEN downloaded + 1
                             ELSE downloaded
            /\ imgRequests' = IF call THEN imgRequests + 1 ELSE imgRequests
            /\ created' = IF call /\ f # <<>> /\ dir[f] = "absent"
                             /\ dl.dir[f] # "absent"
                          THEN created + 1 ELSE created
            /\ lastCard' = [card |-> url, image |-> image_url,
                            existed |-> skip, outcome |-> outcome]
            /\ failKinds' = IF outcome = "streamfail"
                            THEN failKinds \cup {outcome} ELSE failKinds
            /\ log' = Append(log, Req("card", url))
            /\ pc' = after_card(outcome, last)
            /\ IF after_card(outcome, last) = "crashed"
               THEN UNCHANGED <<reported, lastReport, idx, loopDone>>
               ELSE /\ reported' = TRUE
                    /\ lastReport' = downloaded'
                    /\ idx' = idx + 1
                    /\ loopDone' = last
    /\ UNCHANGED <<argv, stack, exitCode, pokemon_name, total_pages, page,
                   all_card_urls, queue, tpResp, noResults, startRuns,
                   prompted, blankEntered, exPage, exResult>>

\* main() up to its loop, scraper.py:172-177, called at scraper.py:190
Main ==
    /\ pc = "main"
    /\ IF argv.given /\ is_valid_input(strip(argv.name))
       THEN Call(strip(argv.name), "argv")
       ELSE /\ pc' = "prompt"
            /\ UNCHANGED <<stack, exitCode, dir, startRuns, runVars>>
    /\ UNCHANGED <<argv, prompted, blankEntered, exPage, exResult>>

\* one iteration of the loop of main(), scraper.py:179-187
Prompt ==
    /\ pc = "prompt"
    /\ prompted' = TRUE
    /\ \E typed \in Names :
        LET user_input == strip(typed)
        IN  IF user_input = <<>>
            THEN /\ blankEntered' = TRUE
                 /\ Return
                 /\ UNCHANGED <<dir, startRuns, runVars>>
            ELSE IF ~is_valid_input(user_input)
            THEN /\ pc' = "prompt"
                 /\ UNCHANGED <<blankEntered, stack, exitCode, dir, startRuns,
                                runVars>>
            ELSE /\ Call(user_input, "loop")
                 /\ UNCHANGED blankEntered
    /\ UNCHANGED <<argv, exPage, exResult>>

Next == MainBlock \/ GetTotalPages \/ SearchPage \/ ProcessCard \/ Main \/ Prompt

Spec == Init /\ [][Next]_vars

----------------------------------------------------------------------------
(* get_card_image_url applied to any detail page *)

InitExtract ==
    /\ pc = "extract"
    /\ dir = [f \in FileNames |-> "absent"]
    /\ exPage \in {FetchFailed} \cup DetailPages
    /\ exResult = None
    /\ argv = NoArg
    /\ stack = <<>>
    /\ pokemon_name = <<>>
    /\ startRuns = 0
    /\ Fresh

Extract ==
    /\ pc = "extract"
    /\ exResult' = get_card_image_url(exPage)
    /\ pc' = "extracted"
    /\ UNCHANGED <<argv, stack, exitCode, dir, startRuns, prompted,
                   blankEntered, exPage, runVars>>

NextExtract == Extract

SpecExtract == InitExtract /\ [][NextExtract]_vars

----------------------------------------------------------------------------
(* One run of download_pokemon_cards("a") from scraper.py:199, against any *)
(* first search page                                                       *)

InitPages ==
    /\ pc = "total"
    /\ dir \in InitDirs
    /\ exPage = FetchFailed
    /\ exResult = None
    /\ argv = [given |-> TRUE, name |-> <<"a">>]
    /\ stack = <<"top">>
    /\ pokemon_name = <<"a">>
    /\ startRuns = 1
    /\ Fresh

GetTotalPagesAny == GetTotalPagesOf(TotalResponses)

NextPages == GetTotalPagesAny \/ SearchPage \/ ProcessCard

SpecPages == InitPages /\ [][NextPages]_vars

----------------------------------------------------------------------------
(* Properties *)

\* the page numbers, or card URLs, of the requests of kind k, in log order
Logged(k) ==
    LET hits == SelectSeq(log, LAMBDA e : e.k = k)
    IN  [i \in 1..Len(hits) |-> hits[i].v]

FileOf(card) == filename(card.image)

\* C1: a card whose image's file name names a file already in the output
\* directory when the card is processed causes no download_image call, and
\* the directory (that file included) is left as it was.
C1_ExistingFileNotRefetched ==
    [][(/\ pc = "cards"
        /\ lastCard'.image # None
        /\ FileOf(lastCard') \in FileNames
        /\ dir[FileOf(lastCard')] # "absent")
       => (/\ imgRequests' = imgRequests
           /\ downloaded' = downloaded
           /\ dir' = dir)]_vars

C1_Witness ==
    /\ lastCard.outcome = "skip"
    /\ lastCard.image = SrcA
    /\ dir[filename(SrcA)] = "old"
    /\ imgRequests = 0
    /\ loopDone

\* C2: once total_pages is nonzero the run is left only after every page
\* 1..total_pages was fetched and every collected card URL was processed,
\* whatever failed on the way.
C2_NoFailureAbortsRun ==
    (total_pages # 0 /\ pc \notin {"pages", "cards"})
    => (/\ Logged("search") = [i \in 1..total_pages |-> i]
        /\ Range(Logged("card")) = all_card_urls
        /\ loopDone)

C2_Witness ==
    /\ loopDone
    /\ failKinds = {"search", "streamfail"}
    /\ lastCard.outcome = "ok"
    /\ Len(Logged("card")) = 2

\* C3: no request is made for a name with a character outside letters,
\* digits, space, dash, apostrophe and period.
C3_InvalidNameNeverRequested ==
    log # <<>> => \A i \in 1..Len(pokemon_name) : pokemon_name[i] \in AllowedChars

\* C4: the name the program is started with is run once; the program ends
\* only through its prompt; the first blank line at the prompt ends it.
C4_OneRunThenPromptLoop ==
    /\ startRuns <= 1
    /\ (pc = "exit" /\ exitCode = 0) => prompted
    /\ blankEntered => pc = "exit"

CardImage(p) == IF p.cardImg = 0 THEN <<>> ELSE p.imgs[p.cardImg]

Recognised(src) == has_host(src) /\ has_ext(src)

\* C5: the card-container image wins when it is valid; og:image, then
\* itemprop=image, are used only when it is not; the first valid <img> of the
\* page only when none of those references the host.
C5_TierOrder ==
    (pc = "extracted" /\ exPage.ok)
    => LET p == exPage
           t1 == Recognised(CardImage(p))
           og == has_host(p.og)
           item == has_host(p.item)
           rest == {i \in 1..Len(p.imgs) : Recognised(p.imgs[i])}
       IN  /\ t1 => exResult = CardImage(p)
           /\ (~t1 /\ og) => exResult = p.og
           /\ (~t1 /\ ~og /\ item) => exResult = p.item
           /\ (~t1 /\ ~og /\ ~item /\ rest # {})
                => exResult = p.imgs[SetMin(rest)]
           /\ (~t1 /\ ~og /\ ~item /\ rest = {}) => exResult = None

C5_Witness ==
    /\ pc = "extracted"
    /\ exPage.ok
    /\ Recognised(CardImage(exPage))
    /\ has_host(exPage.og)
    /\ exPage.og # CardImage(exPage)
    /\ exResult = CardImage(exPage)

\* what the page offers: src of every <img>, content of both meta tags
Offered(p) == Range(p.imgs) \cup {p.og, p.item}

NoneWhenNothingToFind ==
    /\ ~exPage.ok => exResult = None
    /\ (exPage.ok /\ \A u \in Offered(exPage) : ~has_host(u)) => exResult = None

\* C6 as stated: every URL returned references the host and ends in a
\* recognised extension.
C6_AsStated ==
    pc = "extracted"
    => (/\ exResult # None => (has_host(exResult) /\ has_ext(exResult))
        /\ NoneWhenNothingToFind)

\* C6: every URL returned references the host, and ends in a recognised
\* extension unless it is the content of the og:image or itemprop=image tag.
C6_HostAlwaysExtensionOutsideMeta ==
    pc = "extracted"
    => (/\ exResult # None
            => (/\ has_host(exResult)
                /\ exResult \in Offered(exPage)
                /\ has_ext(exResult) \/ exResult \in {exPage.og, exPage.item})
        /\ NoneWhenNothingToFind)

C6_Witness ==
    /\ pc = "extracted"
    /\ exPage.ok
    /\ exResult = exPage.og
    /\ has_host(exResult)
    /\ ~has_ext(exResult)

PageNumbers(resp) == {page_param(h) : h \in Range(resp.links)} \ {-1}

\* C7: get_total_pages gives 0 for a failed fetch, 1 for a page without a
\* numbered pagination link, else the largest page number (1 at least); on 0
\* the run says so and has made the one request of get_total_pages only.
C7_TotalPages ==
    /\ tpResp # NoResp =>
          total_pages = IF ~tpResp.ok THEN 0
                        ELSE IF PageNumbers(tpResp) = {} THEN 1
                        ELSE SetMax(PageNumbers(tpResp) \cup {1})
    /\ (total_pages = 0 /\ log # <<>>) =>
          (/\ noResults
           /\ log = <<Req("total", 1)>>
           /\ pc \notin {"pages", "cards"}
           /\ imgRequests = 0)

C7_Witness ==
    /\ tpResp # NoResp
    /\ tpResp.ok
    /\ Len(tpResp.links) = 2
    /\ page_param(tpResp.links[1]) = 2
    /\ page_param(tpResp.links[2]) = 1
    /\ total_pages = 2
    /\ pc = "pages"

\* C8: pages 1..total_pages are searched once each in ascending order, all
\* before the first card; the collected card URLs are then visited once each
\* in ascending order.
C8_PagesThenSortedCards ==
    LET searches == Logged("search")
        cards == Logged("card")
    IN  /\ Len(searches) <= total_pages
        /\ \A i \in 1..Len(searches) : searches[i] = i
        /\ \A i, j \in 1..Len(log) :
              (i < j /\ log[i].k = "card") => log[j].k = "card"
        /\ cards # <<>> => Len(searches) = total_pages
        /\ \A i, j \in 1..Len(cards) : i < j => cards[i] < cards[j]
        /\ Range(cards) \subseteq all_card_urls
        /\ loopDone => (Range(cards) = all_card_urls
                        /\ Len(searches) = total_pages)

C8_Witness ==
    /\ loopDone
    /\ total_pages = 2
    /\ Logged("search") = <<1, 2>>
    /\ Logged("card") = <<1, 2>>

\* C9: a run with total_pages nonzero ends by reporting the number of files
\* it created.
C9_ReportsNewFiles ==
    loopDone => (reported /\ lastReport = created)

\* C10: a failed download leaves no file behind, so no file of the output
\* directory is a broken one.
C10_FailedDownloadLeavesNoFile ==
    /\ lastCard.outcome \in {"reqfail", "streamfail"}
          => dir[FileOf(lastCard)] = "absent"
    /\ \A f \in FileNames : dir[f] # "partial"

====
